---- MODULE Spec2Model ----
(***************************************************************************)
(* MatMethods: the VASP result store (matmethods/vasp/database.py,         *)
(* class MMVaspDb) and the Raman workflow assembler                        *)
(* (matmethods/vasp/workflows/base/raman.py, get_wf_raman_spectra).        *)
(*                                                                         *)
(* Text is a sequence of code points, bytes are a sequence of integers in  *)
(* 0..255.  The MongoDB collections are sets of documents, the index list  *)
(* of the task collection is a sequence of index documents in creation     *)
(* order, GridFS is its two sub-collections (files, chunks).               *)
(***************************************************************************)
EXTENDS Integers, Sequences, FiniteSets, TLC

VARIABLES
    tasks,      \* self.collection: task records
    counter,    \* self.db.counter: counter documents
    boltztrap,  \* self.db.boltztrap: documents
    indexes,    \* index documents of self.collection, in creation order
    fsFiles,    \* <coll>.files documents of every GridFS collection
    fsChunks,   \* <coll>.chunks documents of every GridFS collection
    nextOid,    \* number of ObjectIds handed out by fs.put so far
    puts,       \* history: what each insert_gridfs call received and returned
    last,       \* history: the last call and its outcome
    wf          \* the call of get_wf_raman_spectra and the Workflow it returns

vars == <<tasks, counter, boltztrap, indexes, fsFiles, fsChunks, nextOid, puts, last, wf>>

storeVars == <<tasks, counter, boltztrap, indexes, fsFiles, fsChunks, nextOid, puts>>

(***************************************************************************)
(* Bounds of the model.                                                    *)
(***************************************************************************)
MaxBlobs == 1
MaxTasks == 1
MaxAtoms == 2
MaxModes == 2

(***************************************************************************)
(* Input pools.                                                            *)
(***************************************************************************)
\* documents handed to insert_gridfs: "aa" and "éa" as code points
Texts == { <<97, 97>>, <<233, 97>> }

\* GridFS collection names: the default of insert_gridfs and the three that
\* reset() clears
GridFsCollections == {"fs", "bandstructure_fs", "dos_fs", "dos_boltztrap_fs"}

\* documents another tool may have left in db.boltztrap
BoltztrapDocs == {"bz1"}

\* an optional list argument: Python's None is [given |-> FALSE]
None == [given |-> FALSE, v |-> <<>>]
Some(s) == [given |-> TRUE, v |-> s]

\* Python truthiness of an optional list: None and the empty list are falsy
Truthy(arg) == arg.given /\ Len(arg.v) > 0

\* the indexes arguments build_indexes is called with
IndexArgs == { None, Some(<<>>), Some(<<"nsites", "nsites">>) }

Range(s) == { s[i] : i \in DOMAIN s }

(***************************************************************************)
(* zlib and str.encode, as insert_gridfs and get_band_structure use them.  *)
(***************************************************************************)
\* str.encode(): UTF-8 of a sequence of code points below 2048
RECURSIVE Encode(_)
Encode(t) ==
    IF t = <<>> THEN <<>>
    ELSE LET c == t[1]
             head == IF c < 128 THEN <<c>>
                     ELSE <<192 + (c \div 64), 128 + (c % 64)>>
         IN head \o Encode(Tail(t))

\* the length of the run of equal bytes that starts b
RECURSIVE RunLen(_)
RunLen(b) ==
    IF Len(b) <= 1 THEN Len(b)
    ELSE IF b[2] = b[1] THEN 1 + RunLen(Tail(b)) ELSE 1

\* the compressed body: (run length, byte) pairs
RECURSIVE Deflate(_)
Deflate(b) ==
    IF b = <<>> THEN <<>>
    ELSE LET n == RunLen(b)
         IN <<n, b[1]>> \o Deflate(SubSeq(b, n + 1, Len(b)))

RECURSIVE Repeat(_, _)
Repeat(x, n) == IF n <= 0 THEN <<>> ELSE <<x>> \o Repeat(x, n - 1)

RECURSIVE Inflate(_)
Inflate(z) ==
    IF Len(z) < 2 THEN <<>>
    ELSE Repeat(z[2], z[1]) \o Inflate(SubSeq(z, 3, Len(z)))

RECURSIVE SumSeq(_)
SumSeq(b) == IF b = <<>> THEN 0 ELSE b[1] + SumSeq(Tail(b))

\* the stream's trailing checksum
Adler(b) == (1 + SumSeq(b)) % 65521

\* zlib.compress(b, level): header (0x78, level), body, checksum
ZlibCompress(b, level) == <<120, level>> \o Deflate(b) \o <<Adler(b)>>

\* the body of a stream is well formed: pairs with a positive run length
WellFormedBody(z) ==
    /\ Len(z) % 2 = 0
    /\ \A i \in DOMAIN z : (i % 2 = 1) => z[i] >= 1

\* zlib.decompress(z): the data, or zlib.error on anything that is no stream
ZlibDecompress(z) ==
    IF /\ Len(z) >= 3
       /\ z[1] = 120
       /\ z[2] \in 0..9
       /\ WellFormedBody(SubSeq(z, 3, Len(z) - 1))
       /\ Adler(Inflate(SubSeq(z, 3, Len(z) - 1))) = z[Len(z)]
    THEN [ok |-> TRUE, data |-> Inflate(SubSeq(z, 3, Len(z) - 1))]
    ELSE [ok |-> FALSE, data |-> <<>>]

(***************************************************************************)
(* MMVaspDb.build_indexes                                                  *)
(***************************************************************************)
ASCENDING == 1
DESCENDING == -1

\* the fields indexed when build_indexes is given no (or an empty) list
DefaultIndices == <<"formula_pretty", "formula_anonymous", "output.energy", "output.energy_per_atom">>

IndexDoc(key, unique) == [key |-> key, unique |-> unique]

\* the two compound indexes built for one formula field
CompoundRequests(formula) ==
    << IndexDoc(<< <<formula, ASCENDING>>, <<"output.energy", DESCENDING>>,
                   <<"completed_at", DESCENDING>> >>, FALSE),
       IndexDoc(<< <<formula, ASCENDING>>, <<"output.energy_per_atom", DESCENDING>>,
                   <<"completed_at", DESCENDING>> >>, FALSE) >>

\* the create_index calls of one build_indexes(indexes) invocation, in order
IndexRequests(arg) ==
    LET _indices == IF Truthy(arg) THEN arg.v ELSE DefaultIndices
    IN  << IndexDoc(<< <<"task_id", ASCENDING>> >>, TRUE) >>
        \o [i \in 1..Len(_indices) |-> IndexDoc(<< <<_indices[i], ASCENDING>> >>, FALSE)]
        \o CompoundRequests("formula_pretty")
        \o CompoundRequests("formula_anonymous")

\* a bug: every call creates another index document
CreateIndexAlways(idx, req) == Append(idx, req)

\* collection.create_index: creates the index unless one with that key exists
CreateIndex(idx, req) ==
    IF \E i \in DOMAIN idx : idx[i].key = req.key THEN idx ELSE Append(idx, req)

\* the first k create_index calls of reqs, applied in order
RECURSIVE ApplyRequests(_, _, _)
ApplyRequests(idx, reqs, k) ==
    IF k = 0 THEN idx
    ELSE CreateIndex(ApplyRequests(idx, reqs, k - 1), reqs[k])

\* the index list after a whole build_indexes(arg)
BuildIndexesResult(idx, arg) == ApplyRequests(idx, IndexRequests(arg), Len(IndexRequests(arg)))

IndexSet(idx) == Range(idx)

NoDuplicateIndex(idx) == \A i, j \in DOMAIN idx : idx[i].key = idx[j].key => i = j

\* whether the call before this one was a build_indexes with the same argument
PrevBuild(arg) ==
    IF last.op = "build_indexes" /\ last.indexes = arg
    THEN (IF last.complete THEN "complete" ELSE "interrupted")
    ELSE "other"

BuildIndexes(arg) ==
    /\ indexes' = BuildIndexesResult(indexes, arg)
    /\ last' = [op |-> "build_indexes", indexes |-> arg, complete |-> TRUE,
                prev |-> PrevBuild(arg), before |-> <<>>]
    /\ UNCHANGED <<tasks, counter, boltztrap, fsFiles, fsChunks, nextOid, puts, wf>>

\* build_indexes whose (k+1)-th create_index raises: the exception leaves the
\* first k indexes built
BuildIndexesInterrupted(arg, k) ==
    /\ k < Len(IndexRequests(arg))
    /\ indexes' = ApplyRequests(indexes, IndexRequests(arg), k)
    /\ last' = [op |-> "build_indexes", indexes |-> arg, complete |-> FALSE,
                prev |-> PrevBuild(arg), before |-> indexes]
    /\ UNCHANGED <<tasks, counter, boltztrap, fsFiles, fsChunks, nextOid, puts, wf>>

(***************************************************************************)
(* MMVaspDb.insert_gridfs                                                  *)
(***************************************************************************)
BoolToInt(b) == IF b THEN 1 ELSE 0

\* a bug: the document is stored as given whatever compress says
StoredBytesUncompressed(d, compress) == d

\* the bytes handed to fs.put
StoredBytes(d, compress) ==
    IF compress THEN ZlibCompress(Encode(d), BoolToInt(compress)) ELSE d

\* the second component of the returned pair
CompressionTag(compress) == "zlib"

InsertGridfs(d, collection, compress) ==
    /\ nextOid < MaxBlobs
    /\ LET fs_id == nextOid + 1
           data == StoredBytes(d, compress)
       IN  /\ nextOid' = fs_id
           /\ fsFiles' = fsFiles \cup {[coll |-> collection, id |-> fs_id]}
           /\ fsChunks' = fsChunks \cup {[coll |-> collection, id |-> fs_id, data |-> data]}
           /\ puts' = puts \cup {[id |-> fs_id, coll |-> collection, d |-> d,
                                  compress |-> compress, tag |-> CompressionTag(compress)]}
           /\ last' = [op |-> "insert_gridfs", d |-> d, collection |-> collection,
                       compress |-> compress, fs_id |-> fs_id,
                       tag |-> CompressionTag(compress)]
    /\ UNCHANGED <<tasks, counter, boltztrap, indexes, wf>>

(***************************************************************************)
(* MMDb.insert (matmethods/utils/database.py): a task record gets the next *)
(* value of the counter as its task_id.                                    *)
(***************************************************************************)
\* the values of calcs_reversed[0]: with or without a bandstructure_fs_id
BsRefs == {<<>>} \cup { <<i>> : i \in 1..MaxBlobs }

InsertTask(bs) ==
    /\ \E c \in counter :
         /\ c.id = "taskid"
         /\ c.c < MaxTasks
         /\ counter' = (counter \ {c}) \cup {[id |-> "taskid", c |-> c.c + 1]}
         /\ tasks' = tasks \cup {[task_id |-> c.c + 1, bs |-> bs]}
         /\ last' = [op |-> "insert", task_id |-> c.c + 1]
    /\ UNCHANGED <<boltztrap, indexes, fsFiles, fsChunks, nextOid, puts, wf>>

(***************************************************************************)
(* MMVaspDb.get_band_structure                                             *)
(***************************************************************************)
\* fs.get(fs_id).read() on GridFS collection coll: the bytes, or NoFile
GridFsRead(coll, fs_id) ==
    IF [coll |-> coll, id |-> fs_id] \in fsFiles
    THEN LET ch == CHOOSE x \in fsChunks : x.coll = coll /\ x.id = fs_id
         IN [ok |-> TRUE, data |-> ch.data]
    ELSE [ok |-> FALSE, data |-> <<>>]

\* the outcome of get_band_structure(task_id, line_mode): the exception raised
\* or the object returned, which wraps the decompressed JSON text
BandStructureOutcome(task_id, line_mode) ==
    LET found == { t \in tasks : t.task_id = task_id }
        cls == IF line_mode THEN "BandStructureSymmLine" ELSE "BandStructure"
        raise(e) == [outcome |-> e, bs_json |-> <<>>]
    IN  IF found = {} THEN raise("TypeError")
        ELSE LET m_task == CHOOSE t \in found : TRUE
             IN IF m_task.bs = <<>> THEN raise("KeyError")
                ELSE LET blob == GridFsRead("bandstructure_fs", m_task.bs[1])
                     IN IF ~blob.ok THEN raise("NoFile")
                        ELSE LET z == ZlibDecompress(blob.data)
                             IN IF ~z.ok THEN raise("zlib.error")
                                ELSE [outcome |-> cls, bs_json |-> z.data]

GetBandStructure(task_id, line_mode) ==
    /\ LET r == BandStructureOutcome(task_id, line_mode)
       IN last' = [op |-> "get_band_structure", task_id |-> task_id,
                   line_mode |-> line_mode, outcome |-> r.outcome, bs_json |-> r.bs_json]
    /\ UNCHANGED <<storeVars, wf>>

(***************************************************************************)
(* MMVaspDb.reset                                                          *)
(***************************************************************************)
\* <coll>.files.delete_many({}) or <coll>.chunks.delete_many({})
DeleteMany(docs, coll) == { x \in docs : x.coll # coll }

\* a bug: bandstructure_fs.chunks is left as it is
ResetKeepingChunks ==
    /\ tasks' = {}
    /\ counter' = { c \in counter : c.id # "taskid" } \cup {[id |-> "taskid", c |-> 0]}
    /\ boltztrap' = {}
    /\ fsFiles' = DeleteMany(DeleteMany(DeleteMany(fsFiles, "dos_fs"),
                                        "dos_boltztrap_fs"), "bandstructure_fs")
    /\ fsChunks' = DeleteMany(DeleteMany(fsChunks, "dos_fs"), "dos_boltztrap_fs")
    /\ indexes' = BuildIndexesResult(indexes, None)
    /\ last' = [op |-> "reset"]
    /\ UNCHANGED <<nextOid, puts, wf>>

Reset ==
    /\ tasks' = {}
    /\ counter' = { c \in counter : c.id # "taskid" } \cup {[id |-> "taskid", c |-> 0]}
    /\ boltztrap' = {}
    /\ fsFiles' = DeleteMany(DeleteMany(DeleteMany(fsFiles, "dos_fs"),
                                        "dos_boltztrap_fs"), "bandstructure_fs")
    /\ fsChunks' = DeleteMany(DeleteMany(DeleteMany(fsChunks, "dos_fs"),
                                         "dos_boltztrap_fs"), "bandstructure_fs")
    /\ indexes' = BuildIndexesResult(indexes, None)
    /\ last' = [op |-> "reset"]
    /\ UNCHANGED <<nextOid, puts, wf>>

(***************************************************************************)
(* get_wf_raman_spectra.  A structure is its number of sites and its       *)
(* reduced formula; a step size is in units of 0.001 Angstrom.  A Firework *)
(* is identified by its position in the list handed to Workflow, and its   *)
(* parents are the positions of the Fireworks it was built with.  The name *)
(* of a Firework is recorded where get_wf_raman_spectra sets it.           *)
(***************************************************************************)
Structures == { [natoms |-> n, formula |-> "Si"] : n \in 1..MaxAtoms }

StepSizes == {5, 10}

DbFiles == {"None", "db.json"}

\* sequences over S of length at most n
SeqsUpTo(S, n) == UNION { [1..k -> S] : k \in 0..n }

\* the modes arguments for a structure: None, or a list of mode indices
ModesArgs(structure) ==
    {None} \cup { Some(m) : m \in SeqsUpTo(0..(3 * structure.natoms - 1), MaxModes) }

\* range(n)
PyRange(n) == [i \in 1..n |-> i - 1]

\* a bug: only None selects all the modes
EffectiveModesIfNone(structure, modes) ==
    IF modes.given THEN modes.v ELSE PyRange(3 * structure.natoms)

\* modes or range(3*len(structure))
EffectiveModes(structure, modes) ==
    IF Truthy(modes) THEN modes.v ELSE PyRange(3 * structure.natoms)

\* a bug: both displacements have the same sign
DisplacementsOneSided(step_size) == <<step_size, step_size>>

\* [-step_size, step_size]
Displacements(step_size) == <<0 - step_size, step_size>>

\* MPRelaxSet(structure, force_gamma=True)
Vis(structure) == [set |-> "MPRelaxSet", structure |-> structure, force_gamma |-> TRUE]

\* OptimizeFW(structure=..., vasp_input_set=vis, ediffg=-0.05, ...): ediffg in
\* units of 0.01 eV/Angstrom
FwOpt(id, structure, vasp_cmd, db_file) ==
    [id |-> id, kind |-> "OptimizeFW", parents |-> {}, mode |-> <<>>, displacement |-> <<>>,
     name |-> <<>>,
     params |-> [structure |-> structure, vasp_input_set |-> Vis(structure), ediffg |-> -5,
                 vasp_cmd |-> vasp_cmd, db_file |-> db_file]]

\* LepsFW(structure, parents=..., phonon=True[, mode=..., displacement=...])
LepsFW(id, structure, parents, vasp_cmd, db_file, mode, displacement) ==
    [id |-> id, kind |-> "LepsFW", parents |-> parents, mode |-> mode,
     displacement |-> displacement, name |-> <<>>,
     params |-> [structure |-> structure, vasp_cmd |-> vasp_cmd, db_file |-> db_file,
                 phonon |-> TRUE]]

\* the Firework that computes the normal modes
FwLeps(id, fw_opt, structure, vasp_cmd, db_file) ==
    LepsFW(id, structure, {fw_opt.id}, vasp_cmd, db_file, <<>>, <<>>)

\* a bug: the displaced runs hang off the optimization, not off the phonon run
FwsNmDispOnOpt(firstId, fw_leps, structure, modes, displacements, vasp_cmd, db_file) ==
    [k \in 1..(Len(modes) * Len(displacements)) |->
        LepsFW(firstId + k - 1, structure, fw_leps.parents, vasp_cmd, db_file,
               << modes[((k - 1) \div Len(displacements)) + 1] >>,
               << displacements[((k - 1) % Len(displacements)) + 1] >>)]

\* for mode in modes: for disp in displacements: fws_nm_disp.append(LepsFW(...))
FwsNmDisp(firstId, fw_leps, structure, modes, displacements, vasp_cmd, db_file) ==
    [k \in 1..(Len(modes) * Len(displacements)) |->
        LepsFW(firstId + k - 1, structure, {fw_leps.id}, vasp_cmd, db_file,
               << modes[((k - 1) \div Len(displacements)) + 1] >>,
               << displacements[((k - 1) % Len(displacements)) + 1] >>)]

\* Firework(RamanSusceptibilityTensorToDbTask(db_file=db_file), parents=fws_nm_disp, name=...)
FwAnalysis(id, fws_nm_disp, structure, db_file) ==
    [id |-> id, kind |-> "Firework", parents |-> { fws_nm_disp[k].id : k \in DOMAIN fws_nm_disp },
     mode |-> <<>>, displacement |-> <<>>,
     name |-> <<structure.formula, "raman analysis">>,
     params |-> [task |-> "RamanSusceptibilityTensorToDbTask", db_file |-> db_file]]

\* the list fws handed to Workflow
RamanFws(structure, modes, step_size, vasp_cmd, db_file) ==
    LET _modes == EffectiveModes(structure, modes)
        displacements == Displacements(step_size)
        fw_opt == FwOpt(1, structure, vasp_cmd, db_file)
        fw_leps == FwLeps(2, fw_opt, structure, vasp_cmd, db_file)
        fws_nm_disp == FwsNmDisp(3, fw_leps, structure, _modes, displacements, vasp_cmd, db_file)
        fw_analysis == FwAnalysis(3 + Len(fws_nm_disp), fws_nm_disp, structure, db_file)
    IN  <<fw_opt, fw_leps>> \o fws_nm_disp \o <<fw_analysis>>

\* the calls of get_wf_raman_spectra: vasp_cmd is left at its default
WfArgs ==
    UNION { { [structure |-> st, modes |-> m, step_size |-> s, vasp_cmd |-> "vasp",
               db_file |-> f] : m \in ModesArgs(st), s \in StepSizes, f \in DbFiles }
            : st \in Structures }

\* the call wf.args returns its Workflow
GetWfRamanSpectra ==
    /\ wf.pc = "called"
    /\ LET a == wf.args
       IN wf' = [pc |-> "returned", args |-> a,
                 fws |-> RamanFws(a.structure, a.modes, a.step_size, a.vasp_cmd, a.db_file),
                 name |-> <<a.structure.formula, "raman spectra">>]
    /\ UNCHANGED <<storeVars, last>>

(***************************************************************************)
(* Specifications.                                                         *)
(***************************************************************************)
\* a database nothing of this package has written to yet; db.boltztrap may
\* hold documents of another tool
InitStore ==
    /\ tasks = {}
    /\ counter = {}
    /\ boltztrap \in SUBSET BoltztrapDocs
    /\ indexes = <<>>
    /\ fsFiles = {}
    /\ fsChunks = {}
    /\ nextOid = 0
    /\ puts = {}
    /\ last = [op |-> "init"]

\* no call of get_wf_raman_spectra is under way
Init ==
    /\ InitStore
    /\ wf = [pc |-> "idle", args |-> <<>>, fws |-> <<>>, name |-> <<>>]

\* a call of get_wf_raman_spectra has been made, with any of the arguments
InitWf ==
    /\ InitStore
    /\ wf \in { [pc |-> "called", args |-> a, fws |-> <<>>, name |-> <<>>] : a \in WfArgs }

\* the result store
Next ==
    \/ \E arg \in IndexArgs : BuildIndexes(arg)
    \/ \E d \in Texts, coll \in GridFsCollections, compress \in BOOLEAN :
          InsertGridfs(d, coll, compress)
    \/ \E bs \in BsRefs : InsertTask(bs)
    \/ \E task_id \in 1..MaxTasks, line_mode \in BOOLEAN : GetBandStructure(task_id, line_mode)
    \/ Reset

Spec == Init /\ [][Next]_vars

\* index building alone, with invocations that stop part-way
NextIdx ==
    \/ \E arg \in IndexArgs : BuildIndexes(arg)
    \/ \E arg \in IndexArgs : \E k \in 0..Len(IndexRequests(arg)) : BuildIndexesInterrupted(arg, k)
    \/ Reset

SpecIdx == Init /\ [][NextIdx]_vars

\* the workflow assembler
NextWf == GetWfRamanSpectra

SpecWf == InitWf /\ [][NextWf]_vars

(***************************************************************************)
(* Properties of the workflow assembler (checked under SpecWf).            *)
(***************************************************************************)
Returned == wf.pc = "returned"

OptimizeNodes == { i \in DOMAIN wf.fws : wf.fws[i].kind = "OptimizeFW" }
PhononNodes == { i \in DOMAIN wf.fws : wf.fws[i].kind = "LepsFW" /\ wf.fws[i].mode = <<>> }
DisplacedNodes == { i \in DOMAIN wf.fws : wf.fws[i].kind = "LepsFW" /\ wf.fws[i].mode # <<>> }
AnalysisNodes == { i \in DOMAIN wf.fws : wf.fws[i].kind = "Firework" }

ChildrenOf(i) == { j \in DOMAIN wf.fws : i \in wf.fws[j].parents }

\* the displaced nodes built for mode m and displacement d
NodesFor(m, d) ==
    { i \in DisplacedNodes : wf.fws[i].mode = <<m>> /\ wf.fws[i].displacement = <<d>> }

\* the mode list the docstring describes: the modes given, all 3N when none are
ModesAsDocumented ==
    IF wf.args.modes.given /\ wf.args.modes.v # <<>>
    THEN wf.args.modes.v
    ELSE [i \in 1..(3 * wf.args.structure.natoms) |-> i - 1]

\* C1: in every returned workflow the optimize node has no parents, the phonon
\* node's only parent is the optimize node, every displaced-static node's only
\* parent is the phonon node, the analysis node's parents are exactly the
\* displaced-static nodes; the graph is acyclic, the optimize node is its only
\* root and the analysis node its only sink.
C1_GraphShape ==
    Returned =>
        /\ \A i \in DOMAIN wf.fws : wf.fws[i].id = i
        /\ Cardinality(OptimizeNodes) = 1
        /\ Cardinality(PhononNodes) = 1
        /\ Cardinality(AnalysisNodes) = 1
        /\ \A i \in OptimizeNodes : wf.fws[i].parents = {}
        /\ \A i \in PhononNodes : wf.fws[i].parents = OptimizeNodes
        /\ \A i \in DisplacedNodes : wf.fws[i].parents = PhononNodes
        /\ \A i \in AnalysisNodes : wf.fws[i].parents = DisplacedNodes
        /\ \A i \in DOMAIN wf.fws : \A q \in wf.fws[i].parents : q \in DOMAIN wf.fws /\ q < i
        /\ { i \in DOMAIN wf.fws : wf.fws[i].parents = {} } = OptimizeNodes
        /\ { i \in DOMAIN wf.fws : ChildrenOf(i) = {} } = AnalysisNodes

\* a workflow for a restricted mode list has been returned
C1_Witness ==
    /\ Returned
    /\ wf.args.modes.given
    /\ Len(wf.args.modes.v) = 2
    /\ Cardinality(DisplacedNodes) = 4

\* C2, as stated: with M the modes argument when one is given and all 3N modes
\* otherwise, there is exactly one displaced-static node per pair (mode in M,
\* displacement in {-step_size, +step_size}), hence 2*|M| of them and 2*|M| + 3
\* nodes in all, 6N + 3 without a modes argument.
C2_Original ==
    Returned =>
        LET M == IF wf.args.modes.given THEN Range(wf.args.modes.v)
                 ELSE 0..(3 * wf.args.structure.natoms - 1)
            s == wf.args.step_size
        IN  /\ \A m \in M : \A d \in {0 - s, s} : Cardinality(NodesFor(m, d)) = 1
            /\ Cardinality(DisplacedNodes) = 2 * Cardinality(M)
            /\ Len(wf.fws) = 2 * Cardinality(M) + 3
            /\ ~wf.args.modes.given => Len(wf.fws) = 6 * wf.args.structure.natoms + 3

\* C2, amended: with M the modes list when it is given and not empty and the
\* list 0..3N-1 otherwise, the displaced-static nodes are, in order, one per
\* entry of M and displacement in (-step_size, +step_size), each carrying its
\* (mode, displacement) pair: 2*len(M) of them and 2*len(M) + 3 nodes in all,
\* which is 6N + 3 when modes is None or empty.
C2_NodePerListedMode ==
    Returned =>
        LET M == ModesAsDocumented
            s == wf.args.step_size
        IN  /\ Cardinality(DisplacedNodes) = 2 * Len(M)
            /\ Len(wf.fws) = 2 * Len(M) + 3
            /\ \A k \in 1..Len(M) :
                  /\ wf.fws[2 * k + 1].mode = <<M[k]>>
                  /\ wf.fws[2 * k + 1].displacement = <<0 - s>>
                  /\ wf.fws[2 * k + 2].mode = <<M[k]>>
                  /\ wf.fws[2 * k + 2].displacement = <<s>>
            /\ DisplacedNodes = 3..(2 * Len(M) + 2)
            /\ ~Truthy(wf.args.modes) => Len(wf.fws) = 6 * wf.args.structure.natoms + 3

\* a workflow for a list that names a mode twice has been returned
C2_Witness ==
    /\ Returned
    /\ wf.args.modes.given
    /\ Len(wf.args.modes.v) = 2
    /\ wf.args.modes.v[1] = wf.args.modes.v[2]
    /\ Len(wf.fws) = 7

\* C8, as stated: the analysis node's recorded parameters identify the step
\* size s, and for every mode both its +s and its -s node are among the
\* analysis node's parents.
C8_Original ==
    Returned =>
        \A a \in AnalysisNodes :
            /\ "step_size" \in DOMAIN wf.fws[a].params
            /\ \A k \in DOMAIN ModesAsDocumented : \A d \in {0 - wf.args.step_size, wf.args.step_size} :
                  NodesFor(ModesAsDocumented[k], d) \cap wf.fws[a].parents # {}

\* C8, amended: the analysis node records its task and db_file and no step
\* size; the step size s is recorded on its parents, each of which is a
\* displaced-static node with displacement +s or -s, and for every mode both
\* the +s and the -s node are among its parents.
C8_CentralDifferenceParents ==
    Returned =>
        \A a \in AnalysisNodes :
            LET s == wf.args.step_size
            IN  /\ DOMAIN wf.fws[a].params = {"task", "db_file"}
                /\ wf.fws[a].params.db_file = wf.args.db_file
                /\ \A q \in wf.fws[a].parents :
                      q \in DisplacedNodes /\ wf.fws[q].displacement \in { <<0 - s>>, <<s>> }
                /\ \A k \in DOMAIN ModesAsDocumented : \A d \in {0 - s, s} :
                      NodesFor(ModesAsDocumented[k], d) \cap wf.fws[a].parents # {}

\* a workflow with a step size other than the default has been returned
C8_Witness ==
    /\ Returned
    /\ wf.args.step_size = 10
    /\ \E a \in AnalysisNodes : \E q \in wf.fws[a].parents : wf.fws[q].displacement = <<-10>>

\* C9, as stated: called with modes an empty list, the workflow has no
\* displaced-static node, an analysis node without parents, and 3 nodes.
C9_Original ==
    (Returned /\ wf.args.modes = Some(<<>>)) =>
        /\ DisplacedNodes = {}
        /\ \A a \in AnalysisNodes : wf.fws[a].parents = {}
        /\ Len(wf.fws) = 3

\* C9, amended: called with modes an empty list, the workflow is the one built
\* for no modes argument: 6N displaced-static nodes, all of them parents of
\* the analysis node, 6N + 3 nodes.
C9_EmptyModesMeansAll ==
    (Returned /\ wf.args.modes = Some(<<>>)) =>
        LET N == wf.args.structure.natoms
        IN  /\ Cardinality(DisplacedNodes) = 6 * N
            /\ \A a \in AnalysisNodes :
                  wf.fws[a].parents = DisplacedNodes /\ wf.fws[a].parents # {}
            /\ Len(wf.fws) = 6 * N + 3
            /\ wf.fws = RamanFws(wf.args.structure, None, wf.args.step_size,
                                 wf.args.vasp_cmd, wf.args.db_file)

\* a workflow for an empty modes list has been returned
C9_Witness ==
    /\ Returned
    /\ wf.args.modes = Some(<<>>)
    /\ Len(wf.fws) > 3

(***************************************************************************)
(* Properties of the result store (checked under Spec; C7 under SpecIdx).  *)
(***************************************************************************)
\* the text a UTF-8 byte sequence stands for (code points below 2048)
RECURSIVE Decode(_)
Decode(b) ==
    IF b = <<>> THEN <<>>
    ELSE IF b[1] < 128 THEN <<b[1]>> \o Decode(Tail(b))
    ELSE IF Len(b) >= 2 THEN <<(b[1] - 192) * 64 + (b[2] - 128)>> \o Decode(Tail(Tail(b)))
    ELSE <<-1>>

\* the index set the documentation of build_indexes gives as the default
DefaultIndexSet ==
    { [key |-> << <<"task_id", 1>> >>, unique |-> TRUE],
      [key |-> << <<"formula_pretty", 1>> >>, unique |-> FALSE],
      [key |-> << <<"formula_anonymous", 1>> >>, unique |-> FALSE],
      [key |-> << <<"output.energy", 1>> >>, unique |-> FALSE],
      [key |-> << <<"output.energy_per_atom", 1>> >>, unique |-> FALSE],
      [key |-> << <<"formula_pretty", 1>>, <<"output.energy", -1>>, <<"completed_at", -1>> >>,
       unique |-> FALSE],
      [key |-> << <<"formula_pretty", 1>>, <<"output.energy_per_atom", -1>>,
                  <<"completed_at", -1>> >>, unique |-> FALSE],
      [key |-> << <<"formula_anonymous", 1>>, <<"output.energy", -1>>, <<"completed_at", -1>> >>,
       unique |-> FALSE],
      [key |-> << <<"formula_anonymous", 1>>, <<"output.energy_per_atom", -1>>,
                  <<"completed_at", -1>> >>, unique |-> FALSE] }

ResetCollections == {"dos_fs", "dos_boltztrap_fs", "bandstructure_fs"}

\* C3: after reset() the task collection is empty, the counter collection
\* holds the one document {_id: "taskid", c: 0}, boltztrap and the files and
\* chunks of dos_fs, dos_boltztrap_fs and bandstructure_fs are empty, the
\* indexes include the default index set, and a further build_indexes()
\* changes no index.
C3_ResetPostcondition ==
    last.op = "reset" =>
        /\ tasks = {}
        /\ counter = {[id |-> "taskid", c |-> 0]}
        /\ boltztrap = {}
        /\ \A x \in fsFiles : x.coll \notin ResetCollections
        /\ \A x \in fsChunks : x.coll \notin ResetCollections
        /\ DefaultIndexSet \subseteq IndexSet(indexes)
        /\ NoDuplicateIndex(indexes)
        /\ BuildIndexesResult(indexes, None) = indexes

\* reset() has run on a store into whose bandstructure_fs a blob had been put
\* and whose task collection had custom indexes
C3_Witness ==
    /\ last.op = "reset"
    /\ \E q \in puts : q.coll = "bandstructure_fs"
    /\ \E i \in DOMAIN indexes : indexes[i].key = << <<"nsites", 1>> >>

NoSuchTask == \A t \in tasks : t.task_id # last.task_id
NoReference == \E t \in tasks : t.task_id = last.task_id /\ t.bs = <<>>
BlobAbsent ==
    \E t \in tasks : /\ t.task_id = last.task_id
                     /\ t.bs # <<>>
                     /\ ~GridFsRead("bandstructure_fs", t.bs[1]).ok

\* C5: get_band_structure fails with NotFoundError, and with no other error,
\* when no task record has the task_id, when the record has no
\* bandstructure_fs_id, and when the blob it names is not in bandstructure_fs.
C5_NotFoundError ==
    (last.op = "get_band_structure" /\ (NoSuchTask \/ NoReference \/ BlobAbsent)) =>
        last.outcome = "NotFoundError"

\* C6: the tag insert_gridfs returns is "zlib" or "none", "zlib" exactly when
\* compress is true and "none" exactly when compress is false.
C6_TagDescribesStorage ==
    last.op = "insert_gridfs" =>
        /\ last.tag \in {"zlib", "none"}
        /\ (last.tag = "zlib") <=> last.compress
        /\ (last.tag = "none") <=> ~last.compress

\* C7: a complete build_indexes(indexes) creates no duplicate index; run again
\* with the same argument it changes nothing; run after an invocation with the
\* same argument that stopped part-way, it yields the index set that one
\* uninterrupted invocation would have yielded.
C7_Idempotent ==
    [][ \A arg \in IndexArgs :
          BuildIndexes(arg) =>
            /\ NoDuplicateIndex(indexes) => NoDuplicateIndex(indexes')
            /\ (last.op = "build_indexes" /\ last.indexes = arg /\ last.complete)
                  => indexes' = indexes
            /\ (last.op = "build_indexes" /\ last.indexes = arg /\ ~last.complete)
                  => IndexSet(indexes') = IndexSet(BuildIndexesResult(last.before, arg))
      ]_vars

\* a complete build_indexes has followed an interrupted one that had built
\* some but not all of the same indexes
C7_Witness ==
    /\ last.op = "build_indexes"
    /\ last.complete
    /\ last.prev = "interrupted"
    /\ last.indexes = Some(<<"nsites", "nsites">>)
    /\ Len(indexes) = 6

\* C10: for a blob put into bandstructure_fs by insert_gridfs, whatever the
\* value of compress, get_band_structure on a task that references it and a
\* consumer that decompresses according to the returned tag both recover the
\* inserted data.
C10_RetrievalDispatchesOnTag ==
    last.op = "get_band_structure" =>
        \A t \in tasks : \A q \in puts :
            ( /\ t.task_id = last.task_id
              /\ t.bs = <<q.id>>
              /\ q.coll = "bandstructure_fs"
              /\ GridFsRead("bandstructure_fs", q.id).ok )
            => /\ last.outcome \in {"BandStructure", "BandStructureSymmLine"}
               /\ Decode(last.bs_json) = q.d
               /\ LET stored == GridFsRead("bandstructure_fs", q.id).data
                  IN  IF q.tag = "zlib"
                      THEN ZlibDecompress(stored).ok /\ Decode(ZlibDecompress(stored).data) = q.d
                      ELSE stored = q.d

====
